---- MODULE Spec2Model ----
(***************************************************************************)
(* The asynchronous delivery subsystem of smspanel:                        *)
(*   services/queue.py      TaskQueue: bounded PriorityQueue, worker pool  *)
(*   utils/rate_limiter.py  RateLimiter: token bucket                      *)
(*   utils/sms_helper.py    the tracked delivery tasks                     *)
(*   services/hkt_sms.py    the transport the tasks call                   *)
(*   services/dead_letter.py  DeadLetterQueue                              *)
(*   services/db_queue.py   DatabaseQueue: the queued_tasks table          *)
(*                                                                         *)
(* Time is counted in ticks; one tick refills one token unit and a token   *)
(* is TokenUnit units, so tokens are fractional as in the code. The code   *)
(* reads time.monotonic() only to take differences, so the model keeps the *)
(* differences: the time since _last_update, the time since each acquire   *)
(* call started, the time each sleep still has to run. A difference stops  *)
(* growing where the code no longer tells it from a larger one (a refill   *)
(* that fills the bucket, a wait that has reached the timeout).            *)
(***************************************************************************)
EXTENDS Integers, Sequences, FiniteSets, TLC

\* ---- bounds of the model -------------------------------------------------
MaxJobs == 3          \* message ids 1..MaxJobs, one enqueue call per id
MaxDeliveries == 2    \* enqueue calls of a run of the whole pipeline
NumWorkers == 2       \* the largest num_workers of a TaskQueue under test
MaxPriority == 1      \* priorities 0..MaxPriority
MaxRecipients == 2    \* recipients per message 0..MaxRecipients
TokenUnit == 3        \* token units per token (one unit refills per tick)
BurstCapacity == 1    \* burst_capacity of the pipeline's limiter, in tokens
MaxBurst == 2         \* the largest burst_capacity of a limiter used alone
AcquireTimeout == 2   \* the default timeout of RateLimiter.acquire, in ticks
MaxTicks == 4         \* ticks a limiter used alone is observed for
MaxRecords == 2       \* rows of the dead-letter table of a store used alone
MaxStamp == 2         \* ticks a dead-letter store used alone is observed for

Workers == 1..NumWorkers
MsgIds == 1..MaxJobs
Priorities == 0..MaxPriority

\* SMS_TASK_NAMES and a task function that is not one of them
SMS_TASK_NAMES == {"process_single_sms_task", "process_bulk_sms_task"}
TaskFuncs == SMS_TASK_NAMES \cup {"_process_single_sms"}

NoJob == [prio |-> -1, func |-> "none", mid |-> 0, seq |-> 0]
NoMsg == [status |-> "NONE", rcpt |-> << >>]
NoCall == [op |-> "none", id |-> 0, value |-> FALSE]
NoSession == [op |-> "none", id |-> 0, row |-> << >>, value |-> "none"]

\* TaskQueue.running and TaskQueue.workers after start() has started the
\* threads 1..n; joining is the place of stop() in its list, 0 outside stop();
\* polling are the threads that have read running and are inside queue.get
Started(n) ==
    [running |-> TRUE, workers |-> [i \in 1..n |-> i], joining |-> 0,
     polling |-> {}]

VARIABLES
    maxsize,     \* TaskQueue.queue.maxsize, the max_queue_size it was built with
    num_workers, \* TaskQueue.num_workers
    heap,        \* TaskQueue.queue.queue: the list heapq keeps as a binary heap
    unfinished,  \* TaskQueue.queue.unfinished_tasks
    msg,         \* Message rows: job_status and the status of each Recipient row
    dlq,         \* DeadLetterMessage rows, in creation order
    sms_service, \* utils/sms_helper._sms_service: "set" or "None"
    rate_limiter, \* TaskQueue.rate_limiter: "None" until init_task_queue sets it
    wpc,         \* where each worker is in _worker_loop
    wjob,        \* the item the worker holds
    wtimeout,    \* the timeout argument of the worker's acquire call
    waited,      \* time.monotonic() - start_time of the worker's acquire call
    sleep_left,  \* what is left of the worker's time.sleep(wait_time)
    wtoken,      \* what the worker's RateLimiter.acquire call returned
    burst_capacity, \* RateLimiter.burst_capacity, in token units
    tokens,      \* RateLimiter._tokens, in token units
    since_update, \* time.monotonic() - RateLimiter._last_update
    job,         \* history: the item enqueue built for each message
    grants,      \* history: the clock at each token the limiter has granted
    clock,       \* history: ticks since the limiter used alone was built
    enq,         \* history: what the enqueue call for each message returned
    fate,        \* history: what became of each message's job
    sends,       \* history: the send_single calls made for each message
    ret,         \* history: the last call of a component used alone, its result
    pool,        \* TaskQueue.running, TaskQueue.workers, where stop() is
    session,     \* the row each thread has loaded and what its call returned
    tasks        \* QueuedTask rows, in creation order

vars == << maxsize, num_workers, sms_service, heap, unfinished, msg, dlq, rate_limiter,
           wpc, wjob, wtimeout, waited, sleep_left, wtoken,
           burst_capacity, tokens, since_update, job, enq, fate,
           grants, clock, sends, ret, pool, session, tasks >>

\* the logs of the transport and of the dead-letter store's callers, which
\* the queue, its workers and the limiter leave alone
xvars == << sends, ret, pool, session, tasks >>
cvars == << maxsize, num_workers, sms_service, burst_capacity, xvars >>
qvars == << heap, unfinished >>
wvars == << wpc, wjob, wtimeout, waited, sleep_left, wtoken >>
rlvars == << cvars, rate_limiter, tokens, since_update >>
tvars == << grants, clock >>
hvars == << job, enq, fate, tvars >>

\* ---- heapq on the (priority, (task_func, args, kwargs)) tuples ------------

\* item < item as Python compares the tuples enqueue builds: the priorities,
\* then the task functions (functions have no order: TypeError), then the
\* args tuples, whose first element is the message id. kwargs is {} in every
\* call the repository makes, and two empty dicts are equal.
Lt(a, b) ==
    IF a.prio # b.prio THEN (IF a.prio < b.prio THEN "true" ELSE "false")
    ELSE IF a.func # b.func THEN "TypeError"
    ELSE IF a.mid < b.mid THEN "true" ELSE "false"

Swap(h, i, j) == [h EXCEPT ![i] = h[j], ![j] = h[i]]

\* _heapq.siftdown: move h[pos] up while it is smaller than its parent
RECURSIVE siftdown(_, _, _)
siftdown(h, startpos, pos) ==
    IF pos > startpos
    THEN LET parentpos == pos \div 2
             cmp == Lt(h[pos], h[parentpos])
         IN  IF cmp = "TypeError" THEN [heap |-> h, ok |-> FALSE]
             ELSE IF cmp = "false" THEN [heap |-> h, ok |-> TRUE]
             ELSE siftdown(Swap(h, pos, parentpos), startpos, parentpos)
    ELSE [heap |-> h, ok |-> TRUE]

\* _heapq.siftup, first loop: bubble the smaller child up until a leaf
RECURSIVE siftup_leaf(_, _)
siftup_leaf(h, pos) ==
    IF pos <= Len(h) \div 2
    THEN LET childpos == 2 * pos
             cmp == IF childpos + 1 <= Len(h)
                    THEN Lt(h[childpos], h[childpos + 1]) ELSE "true"
             smaller == IF cmp = "true" THEN childpos ELSE childpos + 1
         IN  IF cmp = "TypeError" THEN [heap |-> h, ok |-> FALSE, pos |-> pos]
             ELSE siftup_leaf(Swap(h, pos, smaller), smaller)
    ELSE [heap |-> h, ok |-> TRUE, pos |-> pos]

\* _heapq.siftup: then sift the moved item down to its place
siftup(h, pos) ==
    LET r == siftup_leaf(h, pos)
    IN  IF r.ok THEN siftdown(r.heap, pos, r.pos)
        ELSE [heap |-> r.heap, ok |-> FALSE]

\* A push that appends and never sifts: the queue of a plain FIFO
heappush_fifo(h, item) == [heap |-> Append(h, item), ok |-> TRUE]

\* heapq.heappush: append, then siftdown; the item stays appended when a
\* comparison raises
heappush(h, item) == siftdown(Append(h, item), 1, Len(h) + 1)

\* A pop that returns the root and leaves it in the heap
heappop_peek(h) == [heap |-> h, ok |-> TRUE, item |-> h[1]]

\* heapq.heappop: the last element replaces the root and is sifted; when a
\* comparison raises, the root that was to be returned is dropped
heappop(h) ==
    LET lastelt == h[Len(h)]
        rest == SubSeq(h, 1, Len(h) - 1)
    IN  IF rest = << >>
        THEN [heap |-> rest, ok |-> TRUE, item |-> lastelt]
        ELSE LET r == siftup([rest EXCEPT ![1] = lastelt], 1)
             IN  [heap |-> r.heap, ok |-> r.ok, item |-> rest[1]]

\* ---- TaskQueue.enqueue ---------------------------------------------------

\* history: the number of enqueue calls made so far; an item's seq is the
\* position of its enqueue call among them
Submitted == Cardinality({m \in MsgIds : msg[m] # NoMsg})

\* The job_status of a new Message row. The column is not in the models.py
\* at hand; the delivery record is created with status PENDING.
JobStatusDefault == "PENDING"

\* The caller creates the Message row m with n PENDING recipients
\* (api/sms.py), then calls enqueue(f, m, ..., priority=p).
enqueue(m, f, p, n) ==
    /\ msg[m] = NoMsg
    /\ msg' = [msg EXCEPT ![m] = [status |-> JobStatusDefault,
                                  rcpt |-> [i \in 1..n |-> "pending"]]]
    /\ LET item == [prio |-> p, func |-> f, mid |-> m, seq |-> Submitted + 1]
       IN  /\ job' = [job EXCEPT ![m] = item]
           /\ IF Len(heap) >= maxsize
              THEN \* queue.Full: return False
                   /\ UNCHANGED << qvars, fate >>
                   /\ enq' = [enq EXCEPT ![m] = "false"]
              ELSE LET r == heappush(heap, item)
                   IN  /\ heap' = r.heap
                       /\ IF r.ok
                          THEN /\ unfinished' = unfinished + 1
                               /\ enq' = [enq EXCEPT ![m] = "true"]
                          ELSE \* TypeError leaves put() before the counter
                               /\ UNCHANGED unfinished
                               /\ enq' = [enq EXCEPT ![m] = "TypeError"]
                       /\ fate' = [fate EXCEPT ![m] = "queued"]
    /\ UNCHANGED << dlq, wvars, rlvars, tvars >>

\* priority: int = 1
DefaultPriority == 1

\* api/sms.py: the message is created (the next id) with its recipients,
\* then enqueued with the default priority. A single task sends to the first
\* recipient of its message.
Enqueue ==
    \E f \in TaskFuncs, n \in 0..MaxRecipients :
        /\ Submitted < MaxDeliveries
        /\ (f \in SMS_TASK_NAMES \/ n = 1)
        /\ enqueue(Submitted + 1, f, DefaultPriority, n)

\* a caller that passes a priority; requests that created their messages
\* concurrently reach enqueue in any order of the ids
EnqueuePriority ==
    \E m \in MsgIds, f \in SMS_TASK_NAMES, p \in Priorities :
        enqueue(m, f, p, 1)

\* ---- RateLimiter ---------------------------------------------------------

Min(a, b) == IF a < b THEN a ELSE b

\* A refill without the min(burst_capacity, ...) cap
add_tokens_uncapped(tok, elapsed) ==
    IF elapsed > 0 THEN tok + elapsed ELSE tok

\* RateLimiter._add_tokens: the tokens after the refill for the elapsed
\* time (after it _last_update is now, so the elapsed time is 0)
add_tokens(tok, elapsed) ==
    IF elapsed > 0 THEN Min(burst_capacity, tok + elapsed) ELSE tok

\* time.monotonic() advances by one tick. An elapsed time of more than
\* burst_capacity - _tokens refills to the same burst_capacity, and a wait of
\* more than the timeout is as good as any longer one, so one tick beyond
\* each stands for all longer times.
tick ==
    /\ since_update' = Min(since_update + 1, burst_capacity - tokens + 1)
    /\ waited' = [w \in Workers |->
                    IF wpc[w] \in {"acquire", "wait", "sleep"}
                    THEN Min(waited[w] + 1, wtimeout[w] + 1)
                    ELSE waited[w]]
    /\ sleep_left' = [w \in Workers |->
                        IF sleep_left[w] > 0 THEN sleep_left[w] - 1 ELSE 0]
    /\ UNCHANGED << cvars, qvars, msg, dlq, rate_limiter, tokens,
                    wpc, wjob, wtimeout, wtoken, job, enq, fate, grants >>

\* a tick of the pipeline, which is not observed against a clock
Tick == tick /\ UNCHANGED clock

\* a tick of the limiter used alone
TickClock ==
    /\ clock < MaxTicks
    /\ tick
    /\ clock' = clock + 1

\* An acquire that takes its token before it tests the bucket
acquire_locked_eager(w, after) ==
    /\ wpc[w] = "acquire"
    /\ LET refilled == add_tokens(tokens, since_update)
       IN  /\ since_update' = 0
           /\ tokens' = IF refilled >= TokenUnit THEN refilled - TokenUnit ELSE 0
           /\ IF refilled >= TokenUnit
              THEN /\ grants' = Append(grants, clock)
                   /\ wtoken' = [wtoken EXCEPT ![w] = "true"]
                   /\ wpc' = [wpc EXCEPT ![w] = after]
                   /\ waited' = [waited EXCEPT ![w] = 0]
              ELSE /\ UNCHANGED << wtoken, waited, grants >>
                   /\ wpc' = [wpc EXCEPT ![w] = "wait"]
    /\ UNCHANGED << cvars, qvars, msg, dlq, rate_limiter, wjob, wtimeout,
                    sleep_left, job, enq, fate, clock >>

\* RateLimiter.acquire, the locked part of one loop iteration; the caller
\* goes on at `after` when it has its token
acquire_locked(w, after) ==
    /\ wpc[w] = "acquire"
    /\ LET refilled == add_tokens(tokens, since_update)
       IN  /\ since_update' = 0
           /\ IF refilled >= TokenUnit
              THEN /\ tokens' = refilled - TokenUnit
                   /\ grants' = Append(grants, clock)
                   /\ wtoken' = [wtoken EXCEPT ![w] = "true"]
                   /\ wpc' = [wpc EXCEPT ![w] = after]
                   /\ waited' = [waited EXCEPT ![w] = 0]
              ELSE /\ tokens' = refilled
                   /\ UNCHANGED << wtoken, waited, grants >>
                   /\ wpc' = [wpc EXCEPT ![w] = "wait"]
    /\ UNCHANGED << cvars, qvars, msg, dlq, rate_limiter, wjob, wtimeout,
                    sleep_left, job, enq, fate, clock >>

\* An acquire that gives up after its first failed attempt
acquire_unlocked_once(w, after) ==
    /\ wpc[w] = "wait"
    /\ wpc' = [wpc EXCEPT ![w] = after]
    /\ wtoken' = [wtoken EXCEPT ![w] = "false"]
    /\ waited' = [waited EXCEPT ![w] = 0]
    /\ UNCHANGED << qvars, msg, dlq, wjob, wtimeout, sleep_left, rlvars, hvars >>

\* RateLimiter.acquire, after the lock is released: return False at the
\* timeout, else sleep for the wait computed from _tokens as it is read now
acquire_unlocked(w, after) ==
    /\ wpc[w] = "wait"
    /\ LET elapsed == waited[w]
           wait_time == Min(TokenUnit - tokens, wtimeout[w] - elapsed)
       IN  IF elapsed >= wtimeout[w]
           THEN /\ wpc' = [wpc EXCEPT ![w] = after]
                /\ wtoken' = [wtoken EXCEPT ![w] = "false"]
                /\ waited' = [waited EXCEPT ![w] = 0]
                /\ UNCHANGED sleep_left
           ELSE IF wait_time > 0
           THEN /\ wpc' = [wpc EXCEPT ![w] = "sleep"]
                /\ sleep_left' = [sleep_left EXCEPT ![w] = wait_time]
                /\ UNCHANGED << wtoken, waited >>
           ELSE /\ wpc' = [wpc EXCEPT ![w] = "acquire"]
                /\ UNCHANGED << wtoken, waited, sleep_left >>
    /\ UNCHANGED << qvars, msg, dlq, wjob, wtimeout, rlvars, hvars >>

\* time.sleep(wait_time) returns, not before its time
acquire_wake(w) ==
    /\ wpc[w] = "sleep"
    /\ sleep_left[w] = 0
    /\ wpc' = [wpc EXCEPT ![w] = "acquire"]
    /\ UNCHANGED << qvars, msg, dlq, wjob, wtimeout, waited, sleep_left, wtoken,
                    rlvars, hvars >>

\* ---- TaskQueue._worker_loop ----------------------------------------------

is_sms_task(item) == item.func \in SMS_TASK_NAMES

\* queue.get(timeout=1.0) on a non-empty queue. A TypeError raised inside
\* heappop reaches the outer except of the loop, which logs it; the item
\* heappop was about to return is gone.
queue_get(w) ==
    /\ heap # << >>
    /\ LET r == heappop(heap)
       IN  /\ heap' = r.heap
           /\ IF r.ok
              THEN /\ wjob' = [wjob EXCEPT ![w] = r.item]
                   /\ IF rate_limiter # "None"
                      THEN /\ wpc' = [wpc EXCEPT ![w] = "acquire"]
                           /\ waited' = [waited EXCEPT ![w] = 0]
                           /\ wtimeout' = [wtimeout EXCEPT ![w] = AcquireTimeout]
                      ELSE /\ wpc' = [wpc EXCEPT ![w] = "sending"]
                           /\ UNCHANGED << waited, wtimeout >>
                   /\ fate' = [fate EXCEPT ![r.item.mid] = "claimed"]
              ELSE /\ UNCHANGED << wjob, wpc, waited, wtimeout >>
                   /\ fate' = [fate EXCEPT ![r.item.mid] = "lost"]
    /\ UNCHANGED << unfinished, msg, dlq, sleep_left, wtoken, job, enq, tvars,
                    maxsize, num_workers, sms_service, burst_capacity,
                    rate_limiter, tokens, since_update,
                    sends, ret, session, tasks >>

\* a worker of a running pool takes an item
WorkerGet(w) ==
    /\ wpc[w] = "idle"
    /\ queue_get(w)
    /\ UNCHANGED pool

\* self.rate_limiter.acquire() in the worker; whatever it returns, the
\* worker goes on
WorkerTryAcquire(w) == acquire_locked(w, "sending")

WorkerWait(w) == acquire_unlocked(w, "sending")

WorkerWake(w) == acquire_wake(w)

\* TaskQueue._update_message_job_status(message_id, SENDING)
update_message_job_status(m, status) ==
    IF msg[m] # NoMsg THEN [msg EXCEPT ![m].status = status] ELSE msg

\* A worker that invokes the task without writing SENDING
WorkerSending_skipped(w) ==
    /\ wpc[w] = "sending"
    /\ wpc' = [wpc EXCEPT ![w] = "run"]
    /\ UNCHANGED << qvars, msg, dlq, wjob, wtimeout, waited, sleep_left, wtoken,
                    rlvars, hvars >>

\* the worker sets SENDING when the item is a tracked delivery task
WorkerSending(w) ==
    /\ wpc[w] = "sending"
    /\ msg' = IF is_sms_task(wjob[w])
              THEN update_message_job_status(wjob[w].mid, "SENDING")
              ELSE msg
    /\ wpc' = [wpc EXCEPT ![w] = "run"]
    /\ UNCHANGED << qvars, dlq, wjob, wtimeout, waited, sleep_left, wtoken, rlvars, hvars >>

\* ---- the tasks (utils/sms_helper.py, api/sms.py) and the transport -------

\* what HKTSMSService.send_single does for one recipient: a success dict, a
\* failure dict, or an exception (the transient error re-raised after the
\* last attempt, or any other error)
Outcomes == {"sent", "failed", "raise"}

Count(rcpt, v) == Cardinality({i \in DOMAIN rcpt : rcpt[i] = v})

\* The recipient statuses a task leaves for message m under transport
\* outcomes os, and whether it raised.
\*   process_single_sms_task: one send_single, then the recipient row
\*   process_bulk_sms_task: send_bulk sends to each recipient in turn and
\*     raises as soon as one send_single raises; rows are written only from
\*     the complete result
\*   _process_single_sms (api/sms.py): HKTSMSService() is called without its
\*     config_service argument, a TypeError
\* get_sms_service() raises RuntimeError while no service is initialised.
task_func(item, os) ==
    LET m == item.mid
        unchanged == IF msg[m] = NoMsg THEN << >> ELSE msg[m].rcpt
    IN  IF item.func = "_process_single_sms"
        THEN [raised |-> TRUE, rcpt |-> unchanged]
        ELSE IF msg[m] = NoMsg
        THEN [raised |-> FALSE, rcpt |-> unchanged]
        ELSE IF item.func = "process_single_sms_task"
        THEN IF msg[m].rcpt = << >>
             THEN \* recipient record not found: return
                  [raised |-> FALSE, rcpt |-> unchanged]
             ELSE IF sms_service = "None" \/ os[1] = "raise"
             THEN [raised |-> TRUE, rcpt |-> unchanged]
             ELSE [raised |-> FALSE, rcpt |-> [msg[m].rcpt EXCEPT ![1] = os[1]]]
        ELSE IF sms_service = "None" \/ \E i \in DOMAIN os : os[i] = "raise"
             THEN [raised |-> TRUE, rcpt |-> unchanged]
             ELSE [raised |-> FALSE, rcpt |-> os]

\* task_func(*args, **kwargs) inside the worker's try block
WorkerRun(w) ==
    /\ wpc[w] = "run"
    /\ LET m == wjob[w].mid
       IN  \E os \in [DOMAIN msg[m].rcpt -> Outcomes] :
             LET r == task_func(wjob[w], os)
             IN  /\ msg' = IF msg[m] = NoMsg THEN msg
                           ELSE [msg EXCEPT ![m].rcpt = r.rcpt]
                 /\ wpc' = [wpc EXCEPT ![w] = IF r.raised THEN "except" ELSE "final"]
                 /\ fate' = [fate EXCEPT ![m] = IF r.raised THEN "raised" ELSE "returned"]
    /\ UNCHANGED << qvars, dlq, wjob, wtimeout, waited, sleep_left, wtoken, rlvars, job, enq, tvars >>

\* A final status with no PARTIAL: any failed recipient fails the job
update_message_final_status_no_partial(m, default_status) ==
    IF msg[m] = NoMsg THEN msg
    ELSE LET success_count == Count(msg[m].rcpt, "sent")
             failed_count == Count(msg[m].rcpt, "failed")
             pending_count == Count(msg[m].rcpt, "pending")
             total == success_count + failed_count
         IN  IF pending_count > 0 THEN msg
             ELSE IF total = 0
             THEN (IF default_status # "NONE"
                   THEN [msg EXCEPT ![m].status = default_status] ELSE msg)
             ELSE IF success_count = total
             THEN [msg EXCEPT ![m].status = "COMPLETED"]
             ELSE [msg EXCEPT ![m].status = "FAILED"]

\* A final status computed without waiting for the pending recipients
update_message_final_status_early(m, default_status) ==
    IF msg[m] = NoMsg THEN msg
    ELSE LET success_count == Count(msg[m].rcpt, "sent")
             failed_count == Count(msg[m].rcpt, "failed")
             total == success_count + failed_count
         IN  IF total = 0
             THEN (IF default_status # "NONE"
                   THEN [msg EXCEPT ![m].status = default_status] ELSE msg)
             ELSE IF success_count = total
             THEN [msg EXCEPT ![m].status = "COMPLETED"]
             ELSE IF success_count > 0
             THEN [msg EXCEPT ![m].status = "PARTIAL"]
             ELSE [msg EXCEPT ![m].status = "FAILED"]

\* TaskQueue._update_message_final_status(message_id, default_status);
\* default_status None is "NONE"
update_message_final_status(m, default_status) ==
    IF msg[m] = NoMsg THEN msg
    ELSE LET success_count == Count(msg[m].rcpt, "sent")
             failed_count == Count(msg[m].rcpt, "failed")
             pending_count == Count(msg[m].rcpt, "pending")
             total == success_count + failed_count
         IN  IF pending_count > 0 THEN msg
             ELSE IF total = 0
             THEN (IF default_status # "NONE"
                   THEN [msg EXCEPT ![m].status = default_status] ELSE msg)
             ELSE IF success_count = total
             THEN [msg EXCEPT ![m].status = "COMPLETED"]
             ELSE IF success_count > 0
             THEN [msg EXCEPT ![m].status = "PARTIAL"]
             ELSE [msg EXCEPT ![m].status = "FAILED"]

\* queue.task_done() in the finally block, which raises ValueError (logged
\* by the outer except) instead of taking the counter below zero
task_done == IF unfinished - 1 < 0 THEN unfinished ELSE unfinished - 1

\* the task returned: final status of a tracked job, then task_done()
WorkerFinal(w) ==
    /\ wpc[w] = "final"
    /\ msg' = IF is_sms_task(wjob[w])
              THEN update_message_final_status(wjob[w].mid, "NONE")
              ELSE msg
    /\ unfinished' = task_done
    /\ wpc' = [wpc EXCEPT ![w] = "idle"]
    /\ wjob' = [wjob EXCEPT ![w] = NoJob]
    /\ wtoken' = [wtoken EXCEPT ![w] = "none"]
    /\ UNCHANGED << heap, dlq, wtimeout, waited, sleep_left, rlvars, hvars >>

\* max_retries of the DeadLetterQueue get_dead_letter_queue() builds
DefaultMaxRetries == 3

\* a DateTime column that is NULL
None == -1

\* DeadLetterQueue.add: a new pending row with retry_count 0; its id is its
\* place in the table
dlq_add(message_id) ==
    Append(dlq, [message_id |-> message_id, retry_count |-> 0,
                 max_retries |-> DefaultMaxRetries, status |-> "pending",
                 last_attempt_at |-> None, retried_at |-> None])

\* An except block whose dead-letter write is not guarded: the error of a
\* failed write leaves the loop and ends the worker's thread
WorkerExcept_unguarded(w) ==
    /\ wpc[w] = "except"
    /\ msg' = IF is_sms_task(wjob[w])
              THEN update_message_final_status(wjob[w].mid, "FAILED")
              ELSE msg
    /\ \E written \in BOOLEAN :
          /\ dlq' = IF written
                    THEN dlq_add(IF is_sms_task(wjob[w]) THEN wjob[w].mid ELSE 0)
                    ELSE dlq
          /\ wpc' = [wpc EXCEPT ![w] = IF written THEN "idle" ELSE "dead"]
    /\ unfinished' = task_done
    /\ wjob' = [wjob EXCEPT ![w] = NoJob]
    /\ wtoken' = [wtoken EXCEPT ![w] = "none"]
    /\ UNCHANGED << heap, wtimeout, waited, sleep_left, rlvars, hvars >>

\* the task raised: the except block, then task_done(). The status update
\* and the dead-letter write of the block may each fail (they run after the
\* app context of the try block is left); the first failure is passed over,
\* the second logged. message_id None is 0.
WorkerExcept(w) ==
    /\ wpc[w] = "except"
    /\ \E updated \in BOOLEAN :
          msg' = IF is_sms_task(wjob[w]) /\ updated
                 THEN update_message_final_status(wjob[w].mid, "FAILED")
                 ELSE msg
    /\ \E written \in BOOLEAN :
          dlq' = IF written
                 THEN dlq_add(IF is_sms_task(wjob[w]) THEN wjob[w].mid ELSE 0)
                 ELSE dlq
    /\ unfinished' = task_done
    /\ wpc' = [wpc EXCEPT ![w] = "idle"]
    /\ wjob' = [wjob EXCEPT ![w] = NoJob]
    /\ wtoken' = [wtoken EXCEPT ![w] = "none"]
    /\ UNCHANGED << heap, wtimeout, waited, sleep_left, rlvars, hvars >>

\* ---- the specification ---------------------------------------------------

\* init_task_queue: the queue with its rate limiter, workers started
Init ==
    /\ maxsize \in 1..MaxDeliveries
    /\ num_workers = NumWorkers
    /\ sms_service \in {"set", "None"}
    /\ heap = << >>
    /\ unfinished = 0
    /\ msg = [m \in MsgIds |-> NoMsg]
    /\ dlq = << >>
    /\ wpc = [w \in Workers |-> "idle"]
    /\ wjob = [w \in Workers |-> NoJob]
    /\ rate_limiter = "set"
    /\ wtimeout = [w \in Workers |-> AcquireTimeout]
    /\ waited = [w \in Workers |-> 0]
    /\ sleep_left = [w \in Workers |-> 0]
    /\ wtoken = [w \in Workers |-> "none"]
    /\ burst_capacity = BurstCapacity * TokenUnit
    /\ tokens = burst_capacity
    /\ since_update = 0
    /\ job = [m \in MsgIds |-> NoJob]
    /\ enq = [m \in MsgIds |-> "none"]
    /\ fate = [m \in MsgIds |-> "new"]
    /\ grants = << >>
    /\ clock = 0
    /\ sends = [m \in MsgIds |-> << >>]
    /\ ret = NoCall
    /\ pool = Started(num_workers)
    /\ session = [w \in Workers |-> NoSession]
    /\ tasks = << >>

Next ==
    \/ Enqueue
    \/ Tick
    \/ \E w \in 1..num_workers : WorkerGet(w)
    \/ \E w \in 1..num_workers : WorkerTryAcquire(w)
    \/ \E w \in 1..num_workers : WorkerWait(w)
    \/ \E w \in 1..num_workers : WorkerWake(w)
    \/ \E w \in 1..num_workers : WorkerSending(w)
    \/ \E w \in 1..num_workers : WorkerRun(w)
    \/ \E w \in 1..num_workers : WorkerFinal(w)
    \/ \E w \in 1..num_workers : WorkerExcept(w)

Spec == Init /\ [][Next]_vars

\* A TaskQueue built by its constructor alone (rate_limiter is None), used
\* with priorities
InitQ ==
    /\ maxsize \in 1..MaxJobs
    /\ num_workers = 1
    /\ sms_service = "set"
    /\ heap = << >>
    /\ unfinished = 0
    /\ msg = [m \in MsgIds |-> NoMsg]
    /\ dlq = << >>
    /\ wpc = [w \in Workers |-> "idle"]
    /\ wjob = [w \in Workers |-> NoJob]
    /\ rate_limiter = "None"
    /\ wtimeout = [w \in Workers |-> AcquireTimeout]
    /\ waited = [w \in Workers |-> 0]
    /\ sleep_left = [w \in Workers |-> 0]
    /\ wtoken = [w \in Workers |-> "none"]
    /\ burst_capacity = BurstCapacity * TokenUnit
    /\ tokens = burst_capacity
    /\ since_update = 0
    /\ job = [m \in MsgIds |-> NoJob]
    /\ enq = [m \in MsgIds |-> "none"]
    /\ fate = [m \in MsgIds |-> "new"]
    /\ grants = << >>
    /\ clock = 0
    /\ sends = [m \in MsgIds |-> << >>]
    /\ ret = NoCall
    /\ pool = Started(num_workers)
    /\ session = [w \in Workers |-> NoSession]
    /\ tasks = << >>

NextQ ==
    \/ EnqueuePriority
    \/ \E w \in 1..num_workers : WorkerGet(w)
    \/ \E w \in 1..num_workers : WorkerSending(w)
    \/ \E w \in 1..num_workers : WorkerRun(w)
    \/ \E w \in 1..num_workers : WorkerFinal(w)
    \/ \E w \in 1..num_workers : WorkerExcept(w)

SpecQ == InitQ /\ [][NextQ]_vars

\* ---- a RateLimiter used alone by several threads ----

\* A try_acquire that wants more than one whole token in the bucket
try_acquire_strict(t) ==
    /\ wpc[t] = "idle"
    /\ LET refilled == add_tokens(tokens, since_update)
       IN  /\ since_update' = 0
           /\ IF refilled > TokenUnit
              THEN /\ tokens' = refilled - TokenUnit
                   /\ grants' = Append(grants, clock)
                   /\ wtoken' = [wtoken EXCEPT ![t] = "true"]
              ELSE /\ tokens' = refilled
                   /\ UNCHANGED grants
                   /\ wtoken' = [wtoken EXCEPT ![t] = "false"]
    /\ UNCHANGED << cvars, qvars, msg, dlq, rate_limiter, wpc, wjob, wtimeout,
                    waited, sleep_left, job, enq, fate, clock >>

\* A try_acquire whose decrement is lost to a concurrent caller's write
try_acquire_lost_update(t) ==
    /\ wpc[t] = "idle"
    /\ LET refilled == add_tokens(tokens, since_update)
       IN  /\ since_update' = 0
           /\ tokens' = refilled
           /\ IF refilled >= TokenUnit
              THEN /\ grants' = Append(grants, clock)
                   /\ wtoken' = [wtoken EXCEPT ![t] = "true"]
              ELSE /\ UNCHANGED grants
                   /\ wtoken' = [wtoken EXCEPT ![t] = "false"]
    /\ UNCHANGED << cvars, qvars, msg, dlq, rate_limiter, wpc, wjob, wtimeout,
                    waited, sleep_left, job, enq, fate, clock >>

\* RateLimiter.try_acquire, as one locked step of an idle thread
try_acquire(t) ==
    /\ wpc[t] = "idle"
    /\ LET refilled == add_tokens(tokens, since_update)
       IN  /\ since_update' = 0
           /\ IF refilled >= TokenUnit
              THEN /\ tokens' = refilled - TokenUnit
                   /\ grants' = Append(grants, clock)
                   /\ wtoken' = [wtoken EXCEPT ![t] = "true"]
              ELSE /\ tokens' = refilled
                   /\ UNCHANGED grants
                   /\ wtoken' = [wtoken EXCEPT ![t] = "false"]
    /\ UNCHANGED << cvars, qvars, msg, dlq, rate_limiter, wpc, wjob, wtimeout,
                    waited, sleep_left, job, enq, fate, clock >>

\* RateLimiter.get_tokens, as one locked step of an idle thread
get_tokens(t) ==
    /\ wpc[t] = "idle"
    /\ tokens' = add_tokens(tokens, since_update)
    /\ since_update' = 0
    /\ UNCHANGED << cvars, qvars, msg, dlq, rate_limiter, wvars, hvars >>

\* RateLimiter.acquire(timeout) is called: start_time is now
acquire(t, timeout) ==
    /\ wpc[t] = "idle"
    /\ wpc' = [wpc EXCEPT ![t] = "acquire"]
    /\ wtimeout' = [wtimeout EXCEPT ![t] = timeout]
    /\ waited' = [waited EXCEPT ![t] = 0]
    /\ wtoken' = [wtoken EXCEPT ![t] = "none"]
    /\ UNCHANGED << qvars, msg, dlq, wjob, sleep_left, rlvars, hvars >>

InitRL ==
    /\ maxsize = 1
    /\ num_workers = NumWorkers
    /\ sms_service = "set"
    /\ heap = << >>
    /\ unfinished = 0
    /\ msg = [m \in MsgIds |-> NoMsg]
    /\ dlq = << >>
    /\ wpc = [w \in Workers |-> "idle"]
    /\ wjob = [w \in Workers |-> NoJob]
    /\ rate_limiter = "set"
    /\ wtimeout = [w \in Workers |-> AcquireTimeout]
    /\ waited = [w \in Workers |-> 0]
    /\ sleep_left = [w \in Workers |-> 0]
    /\ wtoken = [w \in Workers |-> "none"]
    /\ burst_capacity \in {b * TokenUnit : b \in 1..MaxBurst}
    /\ tokens = burst_capacity
    /\ since_update = 0
    /\ job = [m \in MsgIds |-> NoJob]
    /\ enq = [m \in MsgIds |-> "none"]
    /\ fate = [m \in MsgIds |-> "new"]
    /\ grants = << >>
    /\ clock = 0
    /\ sends = [m \in MsgIds |-> << >>]
    /\ ret = NoCall
    /\ pool = Started(num_workers)
    /\ session = [w \in Workers |-> NoSession]
    /\ tasks = << >>

NextRL ==
    \/ TickClock
    \/ \E w \in 1..num_workers : try_acquire(w)
    \/ \E w \in 1..num_workers : get_tokens(w)
    \/ \E w \in 1..num_workers : \E timeout \in 0..AcquireTimeout : acquire(w, timeout)
    \/ \E w \in 1..num_workers : acquire_locked(w, "idle")
    \/ \E w \in 1..num_workers : acquire_unlocked(w, "idle")
    \/ \E w \in 1..num_workers : acquire_wake(w)

SpecRL == InitRL /\ [][NextRL]_vars

\* ---- a worker whose status bookkeeping can fail -----------------------------

\* _update_message_job_status(message_id, SENDING) raises (its database
\* transaction fails): the task is not invoked, the except block of the
\* enclosing try runs
WorkerSendingRaises(w) ==
    /\ wpc[w] = "sending"
    /\ is_sms_task(wjob[w])
    /\ wpc' = [wpc EXCEPT ![w] = "except"]
    /\ UNCHANGED << qvars, msg, dlq, wjob, wtimeout, waited, sleep_left, wtoken,
                    rlvars, hvars >>

\* _update_message_final_status(message_id) raises after the task returned:
\* the except block of the enclosing try runs
WorkerFinalRaises(w) ==
    /\ wpc[w] = "final"
    /\ is_sms_task(wjob[w])
    /\ wpc' = [wpc EXCEPT ![w] = "except"]
    /\ UNCHANGED << qvars, msg, dlq, wjob, wtimeout, waited, sleep_left, wtoken,
                    rlvars, hvars >>

\* init_task_queue with one worker
InitB ==
    /\ maxsize = MaxDeliveries
    /\ num_workers = 1
    /\ sms_service \in {"set", "None"}
    /\ heap = << >>
    /\ unfinished = 0
    /\ msg = [m \in MsgIds |-> NoMsg]
    /\ dlq = << >>
    /\ wpc = [w \in Workers |-> "idle"]
    /\ wjob = [w \in Workers |-> NoJob]
    /\ rate_limiter = "set"
    /\ wtimeout = [w \in Workers |-> AcquireTimeout]
    /\ waited = [w \in Workers |-> 0]
    /\ sleep_left = [w \in Workers |-> 0]
    /\ wtoken = [w \in Workers |-> "none"]
    /\ burst_capacity = BurstCapacity * TokenUnit
    /\ tokens = burst_capacity
    /\ since_update = 0
    /\ job = [m \in MsgIds |-> NoJob]
    /\ enq = [m \in MsgIds |-> "none"]
    /\ fate = [m \in MsgIds |-> "new"]
    /\ grants = << >>
    /\ clock = 0
    /\ sends = [m \in MsgIds |-> << >>]
    /\ ret = NoCall
    /\ pool = Started(num_workers)
    /\ session = [w \in Workers |-> NoSession]
    /\ tasks = << >>

NextB ==
    \/ Enqueue
    \/ Tick
    \/ \E w \in 1..num_workers : WorkerGet(w)
    \/ \E w \in 1..num_workers : WorkerTryAcquire(w)
    \/ \E w \in 1..num_workers : WorkerWait(w)
    \/ \E w \in 1..num_workers : WorkerWake(w)
    \/ \E w \in 1..num_workers : WorkerSending(w)
    \/ \E w \in 1..num_workers : WorkerSendingRaises(w)
    \/ \E w \in 1..num_workers : WorkerRun(w)
    \/ \E w \in 1..num_workers : WorkerFinal(w)
    \/ \E w \in 1..num_workers : WorkerFinalRaises(w)
    \/ \E w \in 1..num_workers : WorkerExcept(w)

SpecB == InitB /\ [][NextB]_vars

\* ---- the transport's retries (services/hkt_sms.py) --------------------------

\* stop_after_attempt(3) of send_single's retry decorator
StopAfterAttempt == 3

\* what one requests.post of send_single ends in: a response that is not an
\* error status, a requests.RequestException that is no connection error or
\* timeout, a requests.ConnectionError or Timeout, any other exception
AttemptResults == {"ok", "request_error", "connection_error", "error"}

\* send_single from attempt k on, under the results att of the attempts:
\* tenacity calls the function again after a connection error or timeout,
\* and re-raises the error of the last attempt (reraise=True)
RECURSIVE send_single_from(_, _)
send_single_from(att, k) ==
    IF att[k] = "ok"
    THEN [result |-> "sent", attempts |-> k, last |-> att[k]]
    ELSE IF att[k] = "request_error"
    THEN [result |-> "failed", attempts |-> k, last |-> att[k]]
    ELSE IF att[k] = "error"
    THEN [result |-> "raise", attempts |-> k, last |-> att[k]]
    ELSE IF k >= StopAfterAttempt
    THEN [result |-> "raise", attempts |-> k, last |-> att[k]]
    ELSE send_single_from(att, k + 1)

\* a send_single that makes one attempt and lets its error through
send_single_once(att) ==
    [result |-> IF att[1] = "ok" THEN "sent"
                ELSE IF att[1] = "request_error" THEN "failed" ELSE "raise",
     attempts |-> 1, last |-> att[1]]

\* HKTSMSService.send_single(recipient, message)
send_single(att) == send_single_from(att, 1)

\* the send_single calls send_bulk makes for recipients i..: it stops at the
\* first call that raises
RECURSIVE send_bulk_from(_, _)
send_bulk_from(atts, i) ==
    IF i > Len(atts) THEN << >>
    ELSE LET r == send_single(atts[i])
         IN  IF r.result = "raise" THEN << r >>
             ELSE << r >> \o send_bulk_from(atts, i + 1)

\* HKTSMSService.send_bulk(recipients, message): the calls it makes
send_bulk(atts) == send_bulk_from(atts, 1)

\* task_func(*args, **kwargs) with the attempts of the transport spelled out
WorkerRunTransport(w) ==
    /\ wpc[w] = "run"
    /\ LET m == wjob[w].mid
       IN  \E atts \in [DOMAIN msg[m].rcpt -> [1..StopAfterAttempt -> AttemptResults]] :
             LET os == [i \in DOMAIN atts |-> send_single(atts[i]).result]
                 r == task_func(wjob[w], os)
                 called == /\ wjob[w].func \in SMS_TASK_NAMES
                           /\ msg[m] # NoMsg
                           /\ sms_service # "None"
             IN  /\ msg' = IF msg[m] = NoMsg THEN msg
                           ELSE [msg EXCEPT ![m].rcpt = r.rcpt]
                 /\ wpc' = [wpc EXCEPT ![w] = IF r.raised THEN "except" ELSE "final"]
                 /\ fate' = [fate EXCEPT ![m] = IF r.raised THEN "raised" ELSE "returned"]
                 /\ sends' = [sends EXCEPT ![m] = IF called THEN send_bulk(atts) ELSE << >>]
    /\ UNCHANGED << qvars, dlq, wjob, wtimeout, waited, sleep_left, wtoken,
                    maxsize, num_workers, sms_service, burst_capacity, ret,
                    pool, session, tasks,
                    rate_limiter, tokens, since_update, job, enq, tvars >>

\* init_task_queue after init_sms_service, with one worker
InitT ==
    /\ maxsize = MaxDeliveries
    /\ num_workers = 1
    /\ sms_service = "set"
    /\ heap = << >>
    /\ unfinished = 0
    /\ msg = [m \in MsgIds |-> NoMsg]
    /\ dlq = << >>
    /\ wpc = [w \in Workers |-> "idle"]
    /\ wjob = [w \in Workers |-> NoJob]
    /\ rate_limiter = "None"
    /\ wtimeout = [w \in Workers |-> AcquireTimeout]
    /\ waited = [w \in Workers |-> 0]
    /\ sleep_left = [w \in Workers |-> 0]
    /\ wtoken = [w \in Workers |-> "none"]
    /\ burst_capacity = BurstCapacity * TokenUnit
    /\ tokens = burst_capacity
    /\ since_update = 0
    /\ job = [m \in MsgIds |-> NoJob]
    /\ enq = [m \in MsgIds |-> "none"]
    /\ fate = [m \in MsgIds |-> "new"]
    /\ grants = << >>
    /\ clock = 0
    /\ sends = [m \in MsgIds |-> << >>]
    /\ ret = NoCall
    /\ pool = Started(num_workers)
    /\ session = [w \in Workers |-> NoSession]
    /\ tasks = << >>

NextT ==
    \/ Enqueue
    \/ \E w \in 1..num_workers : WorkerGet(w)
    \/ \E w \in 1..num_workers : WorkerSending(w)
    \/ \E w \in 1..num_workers : WorkerRunTransport(w)
    \/ \E w \in 1..num_workers : WorkerFinal(w)
    \/ \E w \in 1..num_workers : WorkerExcept(w)

SpecT == InitT /\ [][NextT]_vars

\* one call of send_single on its own: the transport ends the attempts it is
\* asked for as att says (one more than the decorator allows is on offer)
SendSingle ==
    /\ \E att \in [1..(StopAfterAttempt + 1) -> AttemptResults] :
         ret' = [op |-> "send_single", id |-> 0,
                 value |-> [att |-> att, out |-> send_single(att)]]
    /\ UNCHANGED << qvars, msg, dlq, wvars, hvars, maxsize, num_workers,
                    sms_service, burst_capacity, sends, pool, session, tasks,
                    rate_limiter, tokens, since_update >>

\* an HKTSMSService called directly, as tests/test_retry.py does
InitSS == InitT

NextSS == SendSingle

SpecSS == InitSS /\ [][NextSS]_vars

\* ---- a DeadLetterQueue used alone (services/dead_letter.py) -----------------

\* the ids its callers pass: those of the rows there can be, and one more
DeadLetterIds == 1..(MaxRecords + 1)

\* what the calls of the store leave alone
dlframe == << maxsize, num_workers, sms_service, burst_capacity, sends, qvars,
              msg, wvars, rate_limiter, tokens, since_update, job, enq, fate,
              grants, pool, session, tasks >>

\* datetime.now() moves on
DeadLetterTick ==
    /\ clock < MaxStamp
    /\ clock' = clock + 1
    /\ UNCHANGED << dlq, ret, dlframe >>

\* DeadLetterQueue.add(message_id, ...), message_id None is 0
add(message_id) ==
    /\ Len(dlq) < MaxRecords
    /\ dlq' = dlq_add(message_id)
    /\ ret' = [op |-> "add", id |-> Len(dlq) + 1, value |-> TRUE]
    /\ UNCHANGED << clock, dlframe >>

\* A can_retry that looks at the retry budget only
can_retry_any_status(d) == d.retry_count < d.max_retries

\* DeadLetterMessage.can_retry
can_retry(d) == d.retry_count < d.max_retries /\ d.status = "pending"

\* DeadLetterMessage.increment_retry
increment_retry(d) ==
    [d EXCEPT !.retry_count = @ + 1, !.last_attempt_at = clock]

\* DeadLetterQueue.retry(dead_letter_id)
retry(id) ==
    /\ IF id \notin DOMAIN dlq
       THEN /\ ret' = [op |-> "retry", id |-> id, value |-> FALSE]
            /\ UNCHANGED dlq
       ELSE IF ~can_retry(dlq[id])
       THEN /\ ret' = [op |-> "retry", id |-> id, value |-> FALSE]
            /\ UNCHANGED dlq
       ELSE /\ dlq' = [dlq EXCEPT ![id] = increment_retry(dlq[id])]
            /\ ret' = [op |-> "retry", id |-> id, value |-> TRUE]
    /\ UNCHANGED << clock, dlframe >>

\* A mark_retried that leaves a row alone unless it is pending
row_mark_retried_guarded(d) ==
    IF d.status = "pending"
    THEN [d EXCEPT !.status = "retried", !.retried_at = clock]
    ELSE d

\* DeadLetterMessage.mark_retried
row_mark_retried(d) == [d EXCEPT !.status = "retried", !.retried_at = clock]

\* DeadLetterMessage.mark_abandoned
row_mark_abandoned(d) == [d EXCEPT !.status = "abandoned"]

\* DeadLetterQueue.mark_retried(dead_letter_id)
mark_retried(id) ==
    /\ IF id \notin DOMAIN dlq
       THEN /\ ret' = [op |-> "mark_retried", id |-> id, value |-> FALSE]
            /\ UNCHANGED dlq
       ELSE /\ dlq' = [dlq EXCEPT ![id] = row_mark_retried(dlq[id])]
            /\ ret' = [op |-> "mark_retried", id |-> id, value |-> TRUE]
    /\ UNCHANGED << clock, dlframe >>

\* DeadLetterQueue.mark_abandoned(dead_letter_id)
mark_abandoned(id) ==
    /\ IF id \notin DOMAIN dlq
       THEN /\ ret' = [op |-> "mark_abandoned", id |-> id, value |-> FALSE]
            /\ UNCHANGED dlq
       ELSE /\ dlq' = [dlq EXCEPT ![id] = row_mark_abandoned(dlq[id])]
            /\ ret' = [op |-> "mark_abandoned", id |-> id, value |-> TRUE]
    /\ UNCHANGED << clock, dlframe >>

\* the rows with a status
WithStatus(status) == Cardinality({i \in DOMAIN dlq : dlq[i].status = status})

\* A get_stats whose total leaves the abandoned rows out
get_stats_live ==
    /\ LET pending == WithStatus("pending")
           retried == WithStatus("retried")
           abandoned == WithStatus("abandoned")
       IN  ret' = [op |-> "get_stats", id |-> 0,
                   value |-> [pending |-> pending, retried |-> retried,
                              abandoned |-> abandoned,
                              total |-> pending + retried]]
    /\ UNCHANGED << dlq, clock, dlframe >>

\* DeadLetterQueue.get_stats()
get_stats ==
    /\ LET pending == WithStatus("pending")
           retried == WithStatus("retried")
           abandoned == WithStatus("abandoned")
       IN  ret' = [op |-> "get_stats", id |-> 0,
                   value |-> [pending |-> pending, retried |-> retried,
                              abandoned |-> abandoned,
                              total |-> pending + retried + abandoned]]
    /\ UNCHANGED << dlq, clock, dlframe >>

\* init_dead_letter_queue(app): an empty table, default max_retries
InitDL ==
    /\ maxsize = MaxDeliveries
    /\ num_workers = 1
    /\ sms_service = "set"
    /\ heap = << >>
    /\ unfinished = 0
    /\ msg = [m \in MsgIds |-> NoMsg]
    /\ dlq = << >>
    /\ wpc = [w \in Workers |-> "idle"]
    /\ wjob = [w \in Workers |-> NoJob]
    /\ rate_limiter = "None"
    /\ wtimeout = [w \in Workers |-> AcquireTimeout]
    /\ waited = [w \in Workers |-> 0]
    /\ sleep_left = [w \in Workers |-> 0]
    /\ wtoken = [w \in Workers |-> "none"]
    /\ burst_capacity = BurstCapacity * TokenUnit
    /\ tokens = burst_capacity
    /\ since_update = 0
    /\ job = [m \in MsgIds |-> NoJob]
    /\ enq = [m \in MsgIds |-> "none"]
    /\ fate = [m \in MsgIds |-> "new"]
    /\ grants = << >>
    /\ clock = 0
    /\ sends = [m \in MsgIds |-> << >>]
    /\ ret = NoCall
    /\ pool = Started(num_workers)
    /\ session = [w \in Workers |-> NoSession]
    /\ tasks = << >>

NextDL ==
    \/ DeadLetterTick
    \/ \E message_id \in 0..1 : add(message_id)
    \/ \E id \in DeadLetterIds : retry(id)
    \/ \E id \in DeadLetterIds : mark_retried(id)
    \/ \E id \in DeadLetterIds : mark_abandoned(id)
    \/ get_stats

SpecDL == InitDL /\ [][NextDL]_vars

\* ---- a DeadLetterQueue called from several threads ---------------------------

\* the calls that load a row before they change it
LoadingCalls == {"retry", "mark_retried", "mark_abandoned"}

\* what the calls of a thread on the store leave alone
sessionframe == << maxsize, num_workers, sms_service, burst_capacity, sends,
                   qvars, msg, wvars, rate_limiter, tokens, since_update, job,
                   enq, fate, grants, pool, tasks >>

\* dead_letter = DeadLetterMessage.query.get(dead_letter_id) of thread t's
\* call op: the row as it is now comes into the thread's session
query_get(t, op, id) ==
    /\ session[t].op = "none"
    /\ session' = [session EXCEPT ![t] =
                     [op |-> op, id |-> id,
                      row |-> IF id \in DOMAIN dlq THEN dlq[id] ELSE << >>,
                      value |-> IF id \in DOMAIN dlq THEN "loaded" ELSE "missing"]]
    /\ UNCHANGED << dlq, ret, clock, sessionframe >>

\* the rest of DeadLetterQueue.retry in thread t: the test and the increment
\* are made on the row the thread loaded, and the commit writes the columns
\* increment_retry has set
retry_commit(t) ==
    /\ session[t].op = "retry"
    /\ LET id == session[t].id
           d == session[t].row
       IN  IF session[t].value = "missing"
           THEN /\ ret' = [op |-> "retry", id |-> id, value |-> FALSE]
                /\ UNCHANGED dlq
           ELSE IF ~can_retry(d)
           THEN /\ ret' = [op |-> "retry", id |-> id, value |-> FALSE]
                /\ UNCHANGED dlq
           ELSE /\ dlq' = [dlq EXCEPT
                             ![id].retry_count = increment_retry(d).retry_count,
                             ![id].last_attempt_at = increment_retry(d).last_attempt_at]
                /\ ret' = [op |-> "retry", id |-> id, value |-> TRUE]
    /\ session' = [session EXCEPT ![t] = NoSession]
    /\ UNCHANGED << clock, sessionframe >>

\* the rest of DeadLetterQueue.mark_retried in thread t: the commit writes
\* the status, if the loaded row had another one, and retried_at
mark_retried_commit(t) ==
    /\ session[t].op = "mark_retried"
    /\ LET id == session[t].id
           d == session[t].row
       IN  IF session[t].value = "missing"
           THEN /\ ret' = [op |-> "mark_retried", id |-> id, value |-> FALSE]
                /\ UNCHANGED dlq
           ELSE /\ dlq' = [dlq EXCEPT
                             ![id].status = IF d.status = row_mark_retried(d).status
                                            THEN @ ELSE row_mark_retried(d).status,
                             ![id].retried_at = row_mark_retried(d).retried_at]
                /\ ret' = [op |-> "mark_retried", id |-> id, value |-> TRUE]
    /\ session' = [session EXCEPT ![t] = NoSession]
    /\ UNCHANGED << clock, sessionframe >>

\* the rest of DeadLetterQueue.mark_abandoned in thread t: the commit writes
\* the status if the loaded row had another one
mark_abandoned_commit(t) ==
    /\ session[t].op = "mark_abandoned"
    /\ LET id == session[t].id
           d == session[t].row
       IN  IF session[t].value = "missing"
           THEN /\ ret' = [op |-> "mark_abandoned", id |-> id, value |-> FALSE]
                /\ UNCHANGED dlq
           ELSE /\ dlq' = [dlq EXCEPT
                             ![id].status = IF d.status = row_mark_abandoned(d).status
                                            THEN @ ELSE row_mark_abandoned(d).status]
                /\ ret' = [op |-> "mark_abandoned", id |-> id, value |-> TRUE]
    /\ session' = [session EXCEPT ![t] = NoSession]
    /\ UNCHANGED << clock, sessionframe >>

\* the store behind a threaded server: each request runs in a thread with a
\* session of its own (add is one INSERT), all within one reading of the
\* clock
NextDLC ==
    \/ add(1)
    \/ \E t \in Workers, op \in LoadingCalls, id \in DeadLetterIds : query_get(t, op, id)
    \/ \E t \in Workers : retry_commit(t)
    \/ \E t \in Workers : mark_retried_commit(t)
    \/ \E t \in Workers : mark_abandoned_commit(t)

SpecDLC == InitDL /\ [][NextDLC]_vars

\* ---- the DatabaseQueue (services/db_queue.py) --------------------------------

\* the rows of queued_tasks there can be
MaxTasks == 2

\* default of the column QueuedTask.max_retries
TaskMaxRetries == 3

\* the ids its callers pass: those of the rows there can be, and one more
TaskIds == 1..(MaxTasks + 1)

\* what the calls of the DatabaseQueue leave alone
dbframe == << maxsize, num_workers, sms_service, burst_capacity, sends, qvars,
              msg, dlq, wvars, rate_limiter, tokens, since_update, hvars, pool >>

\* DatabaseQueue.enqueue: a new PENDING row (worker_id NULL is 0), or None
\* when the commit fails
db_enqueue(ok) ==
    /\ Len(tasks) < MaxTasks
    /\ IF ok
       THEN /\ tasks' = Append(tasks, [status |-> "pending", worker_id |-> 0,
                                      retry_count |-> 0,
                                      max_retries |-> TaskMaxRetries])
            /\ ret' = [op |-> "enqueue", id |-> Len(tasks) + 1, value |-> TRUE]
       ELSE /\ ret' = [op |-> "enqueue", id |-> 0, value |-> FALSE]
            /\ UNCHANGED tasks
    /\ UNCHANGED << session, dbframe >>

\* DatabaseQueue.mark_processing(task_id, worker_id), the call as one step
mark_processing(id, worker_id) ==
    /\ IF id \in DOMAIN tasks /\ tasks[id].status = "pending"
       THEN /\ tasks' = [tasks EXCEPT ![id].status = "processing",
                                      ![id].worker_id = worker_id]
            /\ ret' = [op |-> "mark_processing", id |-> id, value |-> TRUE]
       ELSE /\ ret' = [op |-> "mark_processing", id |-> id, value |-> FALSE]
            /\ UNCHANGED tasks
    /\ UNCHANGED << session, dbframe >>

\* DatabaseQueue.mark_completed(task_id)
mark_completed(id) ==
    /\ IF id \in DOMAIN tasks
       THEN /\ tasks' = [tasks EXCEPT ![id].status = "completed"]
            /\ ret' = [op |-> "mark_completed", id |-> id, value |-> TRUE]
       ELSE /\ ret' = [op |-> "mark_completed", id |-> id, value |-> FALSE]
            /\ UNCHANGED tasks
    /\ UNCHANGED << session, dbframe >>

\* DatabaseQueue.mark_failed(task_id, error_message): whatever the status
mark_failed(id) ==
    /\ id \in DOMAIN tasks => tasks[id].retry_count <= TaskMaxRetries
    /\ IF id \in DOMAIN tasks
       THEN /\ tasks' = [tasks EXCEPT ![id].status = "failed",
                                      ![id].retry_count = @ + 1]
            /\ ret' = [op |-> "mark_failed", id |-> id, value |-> TRUE]
       ELSE /\ ret' = [op |-> "mark_failed", id |-> id, value |-> FALSE]
            /\ UNCHANGED tasks
    /\ UNCHANGED << session, dbframe >>

\* A can_retry that looks at the status only
task_can_retry_any_count(d) == d.status = "failed"

\* QueuedTask.can_retry
task_can_retry(d) == d.retry_count < d.max_retries /\ d.status = "failed"

\* DatabaseQueue.retry_failed_tasks()
retry_failed_tasks ==
    /\ LET failed_tasks == {i \in DOMAIN tasks : tasks[i].status = "failed"}
           retried == {i \in failed_tasks : task_can_retry(tasks[i])}
       IN  /\ tasks' = [i \in DOMAIN tasks |->
                          IF i \in retried
                          THEN [tasks[i] EXCEPT !.status = "pending"]
                          ELSE tasks[i]]
           /\ ret' = [op |-> "retry_failed_tasks", id |-> 0,
                      value |-> Cardinality(retried)]
    /\ UNCHANGED << session, dbframe >>

\* a DatabaseQueue on an empty table
InitDB == InitDL

NextDB ==
    \/ \E ok \in BOOLEAN : db_enqueue(ok)
    \/ \E id \in TaskIds, worker_id \in Workers : mark_processing(id, worker_id)
    \/ \E id \in TaskIds : mark_completed(id)
    \/ \E id \in TaskIds : mark_failed(id)
    \/ retry_failed_tasks

SpecDB == InitDB /\ [][NextDB]_vars

\* ---- mark_processing called by several workers at once ----------------------

\* task = QueuedTask.query.get(task_id) of worker w's mark_processing: the
\* row as it is now comes into the worker's session
mark_processing_get(w, id) ==
    /\ session[w].op \in {"none", "returned"}
    /\ session' = [session EXCEPT ![w] =
                     [op |-> "mark_processing", id |-> id,
                      row |-> IF id \in DOMAIN tasks THEN tasks[id] ELSE << >>,
                      value |-> IF id \in DOMAIN tasks THEN "loaded" ELSE "missing"]]
    /\ UNCHANGED << tasks, ret, dbframe >>

\* the rest of mark_processing in worker w: the test is made on the row the
\* worker loaded, the commit writes status and worker_id, and the call
\* returns
mark_processing_commit(w) ==
    /\ session[w].op = "mark_processing"
    /\ LET id == session[w].id
           claimed == /\ session[w].value = "loaded"
                      /\ session[w].row.status = "pending"
       IN  /\ tasks' = IF claimed
                       THEN [tasks EXCEPT ![id].status = "processing",
                                          ![id].worker_id = w]
                       ELSE tasks
           /\ session' = [session EXCEPT ![w] =
                            [op |-> "returned", id |-> id, row |-> << >>,
                             value |-> IF claimed THEN "True" ELSE "False"]]
    /\ UNCHANGED << ret, dbframe >>

NextDBC ==
    \/ \E ok \in BOOLEAN : db_enqueue(ok)
    \/ \E w \in Workers, id \in TaskIds : mark_processing_get(w, id)
    \/ \E w \in Workers : mark_processing_commit(w)

SpecDBC == InitDB /\ [][NextDBC]_vars

\* ---- TaskQueue.start and TaskQueue.stop -----------------------------------

\* the threads of _worker_loop that have been started and have not returned
Live == {w \in Workers : wpc[w] \notin {"unstarted", "exited"}}

\* what start, stop and the loop's test of running leave alone
poolframe == << maxsize, num_workers, sms_service, burst_capacity, sends, ret,
                session, tasks, qvars, msg, dlq, wjob, wtimeout, waited,
                sleep_left, wtoken, rate_limiter, tokens, since_update, hvars >>

\* TaskQueue.start(): nothing when running, else num_workers new threads
start ==
    /\ pool.joining = 0
    /\ IF pool.running
       THEN UNCHANGED << pool, wpc >>
       ELSE \E new \in SUBSET (Workers \ Live) :
              /\ Cardinality(new) = num_workers
              /\ wpc' = [w \in Workers |-> IF w \in new THEN "idle" ELSE wpc[w]]
              /\ pool' = [pool EXCEPT
                            !.running = TRUE,
                            !.workers = pool.workers \o
                                [i \in 1..num_workers |->
                                   CHOOSE w \in new :
                                     Cardinality({v \in new : v < w}) = i - 1]]
    /\ UNCHANGED poolframe

\* TaskQueue.stop(): running = False, then the joins begin
stop ==
    /\ pool.joining = 0
    /\ pool' = [pool EXCEPT !.running = FALSE, !.joining = 1]
    /\ UNCHANGED << wpc, poolframe >>

\* worker.join(timeout=5.0) returns: the thread has returned, or the timeout
\* has run out on a thread that is busy with an item (a thread without an
\* item returns within the second of its poll)
stop_join ==
    /\ pool.joining \in 1..Len(pool.workers)
    /\ LET w == pool.workers[pool.joining]
       IN  wpc[w] = "exited" \/ wjob[w] # NoJob
    /\ pool' = [pool EXCEPT !.joining = pool.joining + 1]
    /\ UNCHANGED << wpc, poolframe >>

\* self.workers.clear(), and stop() returns
stop_clear ==
    /\ pool.joining = Len(pool.workers) + 1
    /\ pool' = [pool EXCEPT !.workers = << >>, !.joining = 0]
    /\ UNCHANGED << wpc, poolframe >>

\* A loop that never reads running
WorkerCheck_forever(w) ==
    /\ wpc[w] = "idle"
    /\ w \notin pool.polling
    /\ pool' = [pool EXCEPT !.polling = pool.polling \cup {w}]
    /\ UNCHANGED << wpc, poolframe >>

\* `while self.running:` the thread goes into queue.get or returns
WorkerCheck(w) ==
    /\ wpc[w] = "idle"
    /\ w \notin pool.polling
    /\ IF pool.running
       THEN /\ pool' = [pool EXCEPT !.polling = pool.polling \cup {w}]
            /\ UNCHANGED wpc
       ELSE /\ wpc' = [wpc EXCEPT ![w] = "exited"]
            /\ UNCHANGED pool
    /\ UNCHANGED poolframe

\* queue.get(timeout=1.0) returns an item to a thread of a pool that can be
\* stopped
WorkerPoll(w) ==
    /\ wpc[w] = "idle"
    /\ w \in pool.polling
    /\ queue_get(w)
    /\ pool' = [pool EXCEPT !.polling = pool.polling \ {w}]

\* queue.get(timeout=1.0) raises queue.Empty: continue
WorkerEmpty(w) ==
    /\ wpc[w] = "idle"
    /\ w \in pool.polling
    /\ heap = << >>
    /\ pool' = [pool EXCEPT !.polling = pool.polling \ {w}]
    /\ UNCHANGED << wpc, poolframe >>

\* TaskQueue(num_workers=1, max_queue_size): nothing started yet
InitS ==
    /\ maxsize = MaxDeliveries
    /\ num_workers = 1
    /\ sms_service = "set"
    /\ heap = << >>
    /\ unfinished = 0
    /\ msg = [m \in MsgIds |-> NoMsg]
    /\ dlq = << >>
    /\ wpc = [w \in Workers |-> "unstarted"]
    /\ wjob = [w \in Workers |-> NoJob]
    /\ rate_limiter = "None"
    /\ wtimeout = [w \in Workers |-> AcquireTimeout]
    /\ waited = [w \in Workers |-> 0]
    /\ sleep_left = [w \in Workers |-> 0]
    /\ wtoken = [w \in Workers |-> "none"]
    /\ burst_capacity = BurstCapacity * TokenUnit
    /\ tokens = burst_capacity
    /\ since_update = 0
    /\ job = [m \in MsgIds |-> NoJob]
    /\ enq = [m \in MsgIds |-> "none"]
    /\ fate = [m \in MsgIds |-> "new"]
    /\ grants = << >>
    /\ clock = 0
    /\ sends = [m \in MsgIds |-> << >>]
    /\ ret = NoCall
    /\ pool = [running |-> FALSE, workers |-> << >>, joining |-> 0,
               polling |-> {}]
    /\ session = [w \in Workers |-> NoSession]
    /\ tasks = << >>

NextS ==
    \/ start
    \/ stop
    \/ stop_join
    \/ stop_clear
    \/ Enqueue
    \/ \E w \in Workers : WorkerCheck(w)
    \/ \E w \in Workers : WorkerPoll(w)
    \/ \E w \in Workers : WorkerEmpty(w)
    \/ \E w \in Workers : WorkerSending(w)
    \/ \E w \in Workers : WorkerRun(w)
    \/ \E w \in Workers : WorkerFinal(w)
    \/ \E w \in Workers : WorkerExcept(w)

SpecS == InitS /\ [][NextS]_vars

\* ---- the bounded priority queue -------------------------------------------

\* an enqueue call for message m is made in this step
Enqueued(m) == msg[m] = NoMsg /\ msg'[m] # NoMsg

\* worker w takes an item off the queue in this step
Claims(w) == wjob[w] = NoJob /\ wjob'[w] # NoJob

\* C1: the queue never holds more than max_queue_size items; an enqueue on a
\* full queue returns false and leaves the queue as it was; an enqueue below
\* the capacity returns true and adds exactly one item.
C1_BoundedEnqueue ==
    [][/\ Len(heap') <= maxsize
       /\ \A m \in MsgIds :
            Enqueued(m) =>
              IF Len(heap) >= maxsize
              THEN enq'[m] = "false" /\ heap' = heap
              ELSE enq'[m] = "true" /\ Len(heap') = Len(heap) + 1]_vars

C3_FifoWithinPriority ==
    [][\A w \in Workers :
         Claims(w) =>
           \A i \in 1..Len(heap) :
               heap[i].prio = wjob'[w].prio => heap[i].seq >= wjob'[w].seq]_vars

\* ---- the job status of a delivery -----------------------------------------

Terminal == {"COMPLETED", "PARTIAL", "FAILED"}

\* message m's job is one of the tracked delivery tasks
Tracked(m) == is_sms_task(job[m])

\* the worker that took m's job has run its task and marked the item done
Done(m) ==
    /\ fate[m] \in {"returned", "raised"}
    /\ \A w \in Workers : wjob[w].mid # m

Finalizes(w) ==
    /\ wpc[w] = "final"
    /\ wpc'[w] = "idle"
    /\ is_sms_task(wjob[w])
    /\ msg[wjob[w].mid] # NoMsg

C6_RaiseBeforeOutcome ==
    \A m \in MsgIds :
        (/\ Tracked(m)
         /\ Done(m)
         /\ fate[m] = "raised"
         /\ \A i \in DOMAIN msg[m].rcpt : msg[m].rcpt[i] = "pending")
        => msg[m].status = "FAILED"

\* C7: a tracked job whose task raised is FAILED after the failure path, never
\* SENDING, COMPLETED or PARTIAL.
C7_RaiseForcesFailed ==
    \A m \in MsgIds :
        (Tracked(m) /\ Done(m) /\ fate[m] = "raised")
        => (msg[m].status = "FAILED"
            /\ msg[m].status \notin {"SENDING", "COMPLETED", "PARTIAL"})

\* C8: every tracked job a worker took has a terminal status when the worker
\* has marked the item done, whether its task returned or raised.
C8_TerminalWhenDone ==
    \A m \in MsgIds : (Tracked(m) /\ Done(m)) => msg[m].status \in Terminal

\* ---- the rate limit -------------------------------------------------------

\* C9: a worker that has invoked its task has acquired a token for it.
C9_TokenBeforeInvocation ==
    \A w \in Workers : wpc[w] \in {"final", "except"} => wtoken[w] = "true"

\* C10: the tokens of a RateLimiter are never below 0 and never above
\* burst_capacity.
C10_TokensInRange == 0 <= tokens /\ tokens <= burst_capacity

\* a token was taken, a call was refused, and the bucket is full again
C10_DrainedAndRefilled ==
    /\ tokens = burst_capacity
    /\ \E t \in Workers : wtoken[t] = "true"
    /\ \E t \in Workers : wtoken[t] = "false"

\* C11: with several threads calling try_acquire and acquire, the tokens
\* never go below 0 and the tokens granted so far never exceed the initial
\* burst_capacity plus what the elapsed time has refilled.
C11_GrantsWithinBudget ==
    /\ tokens >= 0
    /\ Len(grants) * TokenUnit + tokens <= burst_capacity + clock

\* two threads hold a token each, more tokens were granted than the bucket
\* started with, and the grants used up the whole budget
C11_BudgetUsedUp ==
    /\ \A t \in 1..num_workers : wtoken[t] = "true"
    /\ Len(grants) * TokenUnit > burst_capacity
    /\ Len(grants) * TokenUnit + tokens = burst_capacity + clock

\* the whole tokens of a full bucket
FullBucket == burst_capacity \div TokenUnit

\* C12: from a full bucket, with no time elapsed, a try_acquire returns true
\* while fewer than capacity tokens have been granted and false after that;
\* when those tokens were all granted at time 0 and the time of one token has
\* elapsed, a try_acquire returns true once more and false after that.
C12_BurstThenRefill ==
    [][\A t \in Workers :
         try_acquire(t) =>
           /\ clock = 0 =>
                (wtoken'[t] = "true" <=> Len(grants) < FullBucket)
           /\ (/\ clock = TokenUnit
               /\ Len(grants) >= FullBucket
               /\ \A i \in 1..FullBucket : grants[i] = 0)
              => (wtoken'[t] = "true" <=> Len(grants) = FullBucket)]_vars

\* the burst was granted at time 0, one more token after the time of one
\* token, and the try_acquire after that was refused
C12_OneMore ==
    /\ clock = TokenUnit
    /\ Len(grants) = FullBucket + 1
    /\ \A i \in 1..FullBucket : grants[i] = 0
    /\ grants[FullBucket + 1] = TokenUnit
    /\ tokens = 0
    /\ since_update = 0
    /\ \E t \in Workers : wpc[t] = "idle" /\ wtoken[t] = "false"

\* thread t's acquire call returns in this step
Returns(t) == wpc[t] \in {"acquire", "wait"} /\ wpc'[t] = "idle"

\* C13: an acquire(timeout) call returns true exactly when it has consumed a
\* token, returns false only when the timeout has elapsed since its start,
\* and does not return false when a whole token is in the bucket at the end
\* of the timeout.
C13_AcquireTimeout ==
    [][\A t \in Workers :
         Returns(t) =>
           /\ wtoken'[t] = "true" <=> Len(grants') = Len(grants) + 1
           /\ wtoken'[t] = "false" =>
                /\ waited[t] >= wtimeout[t]
                /\ ~ (/\ waited[t] = wtimeout[t]
                      /\ tokens + since_update >= TokenUnit)]_vars

\* C13, as it holds: an acquire(timeout) call returns true exactly when it
\* has consumed a token; it returns false only when the timeout has elapsed
\* since its start, after an attempt that found less than a whole token, and
\* then it has consumed none.
C13_AcquireReturns ==
    [][\A t \in Workers :
         Returns(t) =>
           /\ wtoken'[t] \in {"true", "false"}
           /\ wtoken'[t] = "true" <=> Len(grants') = Len(grants) + 1
           /\ wtoken'[t] = "false" =>
                /\ waited[t] >= wtimeout[t]
                /\ wpc[t] = "wait"
                /\ grants' = grants
                /\ tokens' = tokens]_vars

\* one caller is asleep waiting for the refill of an emptied bucket while
\* another, its timeout elapsed after a failed attempt, is about to return
C13_BlockedAndTimedOut ==
    \E t, u \in Workers :
        /\ wpc[t] = "sleep"
        /\ sleep_left[t] > 0
        /\ tokens < TokenUnit
        /\ wpc[u] = "wait"
        /\ wtimeout[u] > 0
        /\ waited[u] >= wtimeout[u]

\* C14: the tokens go down only in a step that grants a token, and then to
\* exactly one token less than the refilled bucket; in every other step
\* (a refused try_acquire, an acquire that waits or times out, get_tokens, a
\* tick) they stay or go up by the refill, never above burst_capacity; a
\* limiter that has granted nothing holds burst_capacity.
C14_TokenFrame ==
    [][/\ grants = << >> => tokens = burst_capacity
       /\ IF grants' # grants
          THEN /\ Len(grants') = Len(grants) + 1
               /\ tokens' = Min(burst_capacity, tokens + since_update) - TokenUnit
          ELSE /\ tokens' >= tokens
               /\ tokens' <= Min(burst_capacity, tokens + since_update)]_vars

\* after a grant and a refused call the bucket holds a refilled fraction of
\* a token, and a caller waits on it
C14_FractionRefilled ==
    /\ grants # << >>
    /\ 0 < tokens
    /\ tokens < TokenUnit
    /\ \E t \in Workers : wpc[t] = "idle" /\ wtoken[t] = "false"
    /\ \E t \in Workers : wpc[t] = "wait"

\* ---- the worker pool --------------------------------------------------------

\* the places of a running worker's loop
LoopStates ==
    {"idle", "acquire", "wait", "sleep", "sending", "run", "final", "except"}

\* the dead-letter records written for message m
DeadLetters(m) == {i \in DOMAIN dlq : dlq[i].message_id = m}

\* the workers that hold an item
InFlight == {w \in Workers : wjob[w] # NoJob}

\* C15: every started worker stays in its loop whatever fails, and a worker
\* that leaves the except block is back at the dequeue with no item.
C15_WorkersSurvive ==
    [][\A w \in 1..num_workers :
         /\ wpc'[w] \in LoopStates
         /\ (wpc[w] = "except" /\ wpc'[w] # "except")
            => (wpc'[w] = "idle" /\ wjob'[w] = NoJob)]_vars

\* all workers are back at the dequeue after a job whose task raised and
\* whose dead-letter write failed, and after a job enqueued later than it
C15_SurvivedFailures ==
    /\ \A w \in 1..num_workers : wpc[w] = "idle"
    /\ dlq = << >>
    /\ \E m1, m2 \in MsgIds :
          /\ Done(m1)
          /\ fate[m1] = "raised"
          /\ Done(m2)
          /\ job[m1].seq < job[m2].seq

\* C16: the unfinished count of the queue is the number of queued items plus
\* the number of items workers hold (so it is 0 when all are processed and
\* task_done is never called too often).
C16_UnfinishedCount == unfinished = Len(heap) + Cardinality(InFlight)

\* C17: no two workers hold the same job, no job is both queued and held by
\* a worker, a job is claimed only from the queue and its task is invoked
\* only once, by the worker that claimed it.
C17_ClaimedOnce ==
    [][/\ \A w1, w2 \in InFlight' : w1 # w2 => wjob'[w1].mid # wjob'[w2].mid
       /\ \A w \in InFlight', i \in 1..Len(heap') : heap'[i].mid # wjob'[w].mid
       /\ \A m \in MsgIds :
            /\ (fate'[m] = "claimed" /\ fate[m] # "claimed") => fate[m] = "queued"
            /\ (fate'[m] \in {"returned", "raised"} /\ fate'[m] # fate[m])
               => (fate[m] = "claimed" /\ \E w \in InFlight : wjob[w].mid = m)]_vars

\* two workers run the tasks of two jobs at the same time
C17_TwoInFlight ==
    \E w1, w2 \in Workers :
        /\ w1 # w2
        /\ wpc[w1] = "run"
        /\ wpc[w2] = "run"
        /\ wjob[w1].mid # wjob[w2].mid

\* C18: when the worker has finished a job whose task raised, one dead-letter
\* record exists for each such job, pending, with retry_count 0 and the
\* store's max_retries.
C18_OneDeadLetterPerRaise ==
    /\ Len(dlq) = Cardinality({m \in MsgIds : Done(m) /\ fate[m] = "raised"})
    /\ \A m \in MsgIds :
          (Tracked(m) /\ Done(m) /\ fate[m] = "raised")
          => Cardinality(DeadLetters(m)) = 1
    /\ \A i \in DOMAIN dlq :
          /\ dlq[i].status = "pending"
          /\ dlq[i].retry_count = 0
          /\ dlq[i].max_retries = DefaultMaxRetries

\* C19: a tracked job that is FAILED when its worker has finished the item
\* has a dead-letter record.
C19_FailedHasDeadLetter ==
    \A m \in MsgIds :
        (Tracked(m) /\ Done(m) /\ msg[m].status = "FAILED")
        => DeadLetters(m) # {}

C21_DeadLetterOnlyOnRaise ==
    \A m \in MsgIds : DeadLetters(m) # {} => fate[m] = "raised"

\* worker w leaves the except block in this step with no dead-letter record
\* written
WriteFails(w) == wpc[w] = "except" /\ wpc'[w] # "except" /\ dlq' = dlq

\* C22: a worker whose dead-letter write fails is back at the dequeue with
\* no item and the item marked done once; a record is written only by the
\* worker that leaves the except block with the job, never later.
C22_WriteFailureSwallowed ==
    [][/\ \A w \in 1..num_workers :
            WriteFails(w) => /\ wpc'[w] = "idle"
                             /\ wjob'[w] = NoJob
                             /\ unfinished' = unfinished - 1
       /\ dlq' # dlq
          => \E w \in 1..num_workers :
                /\ wpc[w] = "except"
                /\ wpc'[w] = "idle"
                /\ Len(dlq') = Len(dlq) + 1]_vars

\* ---- the transport ---------------------------------------------------------

\* the recipients of message m for which send_single gave up after its last
\* attempt ended in a connection error or timeout
Exhausted(m) ==
    {i \in DOMAIN sends[m] :
        /\ sends[m][i].result = "raise"
        /\ sends[m][i].last = "connection_error"}

\* C23: when the retries of send_single are exhausted for a recipient of a
\* bulk job, that recipient is FAILED, send_single was called for every
\* recipient of the job, and the finished job has the status of its
\* recipient counts (PARTIAL when another recipient was sent).
C23_ExhaustionFailsRecipientOnly ==
    \A m \in MsgIds :
        (/\ job[m].func = "process_bulk_sms_task"
         /\ Len(msg[m].rcpt) > 1
         /\ Done(m)
         /\ Exhausted(m) # {})
        => /\ Len(sends[m]) = Len(msg[m].rcpt)
           /\ \A i \in Exhausted(m) : msg[m].rcpt[i] = "failed"
           /\ msg[m].status \in Terminal
           /\ Count(msg[m].rcpt, "sent") > 0 => msg[m].status = "PARTIAL"

\* ---- the dead-letter store --------------------------------------------------

\* C24: retry(id) returns false and changes no row when there is no row id,
\* when the row's retry_count has reached max_retries or when its status is
\* not pending; otherwise it returns true, adds 1 to the row's retry_count,
\* sets its last_attempt_at to the time of the call and changes nothing else
\* (the status stays pending).
C24_Retry ==
    [][\A id \in DeadLetterIds :
         retry(id) =>
           IF \/ id \notin DOMAIN dlq
              \/ dlq[id].retry_count >= dlq[id].max_retries
              \/ dlq[id].status # "pending"
           THEN ret'.value = FALSE /\ dlq' = dlq
           ELSE /\ ret'.value = TRUE
                /\ dlq' = [dlq EXCEPT ![id].retry_count = dlq[id].retry_count + 1,
                                      ![id].last_attempt_at = clock]
                /\ dlq'[id].status = "pending"]_vars

\* retry has just refused a pending row that it had accepted max_retries
\* times, beside a row that is not pending
C24_RefusedAfterLastRetry ==
    /\ ret.op = "retry"
    /\ ret.value = FALSE
    /\ ret.id \in DOMAIN dlq
    /\ dlq[ret.id].status = "pending"
    /\ dlq[ret.id].retry_count = dlq[ret.id].max_retries
    /\ dlq[ret.id].last_attempt_at > 0
    /\ \E i \in DOMAIN dlq : dlq[i].status # "pending" /\ dlq[i].retry_count > 0

\* C25: no row is pending with retry_count >= max_retries.
C25_NeverPendingWhenSpent ==
    \A i \in DOMAIN dlq :
        ~(dlq[i].status = "pending" /\ dlq[i].retry_count >= dlq[i].max_retries)

\* C26: the status and the retry_count of a row that is retried or abandoned
\* never change.
C26_TerminalRows ==
    [][\A i \in DOMAIN dlq :
         dlq[i].status \in {"retried", "abandoned"}
         => /\ dlq'[i].status = dlq[i].status
            /\ dlq'[i].retry_count = dlq[i].retry_count]_vars

\* C27: mark_retried(id) and mark_abandoned(id) return false and change no
\* row when there is no row id; otherwise they return true and the row is
\* retried / abandoned; a call on a row that already has the status it sets
\* changes no row.
C27_MarkIdempotent ==
    [][\A id \in DeadLetterIds :
         /\ mark_retried(id) =>
              IF id \notin DOMAIN dlq
              THEN ret'.value = FALSE /\ dlq' = dlq
              ELSE /\ ret'.value = TRUE
                   /\ dlq'[id].status = "retried"
                   /\ dlq[id].status = "retried" => dlq' = dlq
         /\ mark_abandoned(id) =>
              IF id \notin DOMAIN dlq
              THEN ret'.value = FALSE /\ dlq' = dlq
              ELSE /\ ret'.value = TRUE
                   /\ dlq'[id].status = "abandoned"
                   /\ dlq[id].status = "abandoned" => dlq' = dlq]_vars

\* C27 as the code has it: on a row that exists mark_retried sets the status
\* and stamps retried_at with the time of the call, every time, and changes
\* nothing else; mark_abandoned sets the status and changes nothing else.
C27_MarkStamps ==
    [][\A id \in DeadLetterIds :
         /\ mark_retried(id) =>
              IF id \notin DOMAIN dlq
              THEN ret'.value = FALSE /\ dlq' = dlq
              ELSE /\ ret'.value = TRUE
                   /\ dlq' = [dlq EXCEPT ![id].status = "retried",
                                         ![id].retried_at = clock]
         /\ mark_abandoned(id) =>
              IF id \notin DOMAIN dlq
              THEN ret'.value = FALSE /\ dlq' = dlq
              ELSE /\ ret'.value = TRUE
                   /\ dlq' = [dlq EXCEPT ![id].status = "abandoned"]]_vars

\* a call for a row that is not there has returned false, beside a row
\* marked retried after the clock moved and a row marked abandoned
C27_MissingBesideMarked ==
    /\ ret.op \in {"mark_retried", "mark_abandoned"}
    /\ ret.value = FALSE
    /\ ret.id \notin DOMAIN dlq
    /\ \E i, j \in DOMAIN dlq :
          /\ dlq[i].status = "retried"
          /\ dlq[i].retried_at > 0
          /\ dlq[j].status = "abandoned"

\* ---- the order of a worker's steps ------------------------------------------

\* the worker is inside RateLimiter.acquire
Acquiring(w) == wpc[w] \in {"acquire", "wait", "sleep"}

\* C28: a tracked job whose worker is inside acquire, or has just been
\* granted its token, is SENDING already.
C28_SendingBeforeToken ==
    \A w \in 1..num_workers :
        (/\ wjob[w] # NoJob
         /\ is_sms_task(wjob[w])
         /\ msg[wjob[w].mid] # NoMsg
         /\ Acquiring(w) \/ wpc[w] = "sending")
        => msg[wjob[w].mid].status = "SENDING"

\* C29: a worker that holds a task which is no tracked delivery job is never
\* inside acquire and has no answer from the limiter.
C29_OnlyTrackedLimited ==
    \A w \in 1..num_workers :
        (wjob[w] # NoJob /\ ~is_sms_task(wjob[w]))
        => (~Acquiring(w) /\ wtoken[w] = "none")

\* the bulk jobs with two recipients, both sent
BothSent(m) ==
    /\ job[m].func = "process_bulk_sms_task"
    /\ msg[m].rcpt = << "sent", "sent" >>

Servicing == {w \in Workers : wjob[w] # NoJob \/ w \in pool.polling}

\* C36: no more than num_workers threads of _worker_loop service the queue.
C36_AtMostNumWorkers == Cardinality(Servicing) <= num_workers

\* ---- progress ----------------------------------------------------------------

\* C32: when the queue is empty and every worker is back at the dequeue,
\* every job enqueue accepted has been through a worker and marked done, and
\* the unfinished count is 0.
C32_DrainedWhenQuiet ==
    (heap = << >> /\ \A w \in 1..num_workers : wpc[w] = "idle")
    => /\ unfinished = 0
       /\ \A m \in MsgIds : enq[m] = "true" => Done(m)

Call == ret.value

C35_StatsMatchStore ==
    ret.op = "get_stats" =>
      /\ ret.value.pending = Cardinality({i \in DOMAIN dlq : dlq[i].status = "pending"})
      /\ ret.value.retried = Cardinality({i \in DOMAIN dlq : dlq[i].status = "retried"})
      /\ ret.value.abandoned = Cardinality({i \in DOMAIN dlq : dlq[i].status = "abandoned"})
      /\ ret.value.total = ret.value.pending + ret.value.retried + ret.value.abandoned
      /\ ret.value.total = Len(dlq)

\* get_stats has returned on a table with an abandoned row and a pending row
\* that has been retried
C35_MixedStore ==
    /\ ret.op = "get_stats"
    /\ \E i, j \in DOMAIN dlq :
          /\ dlq[i].status = "abandoned"
          /\ dlq[j].status = "pending"
          /\ dlq[j].retry_count > 0

\* ---- what enqueue returns ---------------------------------------------------------

\* C37: an enqueue call ends in true or in false, and one that does not end
\* in true leaves the items of the queue and the unfinished count as they
\* were.
C37_EnqueueReturnsBoolean ==
    [][\A m \in MsgIds :
         Enqueued(m) =>
           /\ enq'[m] \in {"true", "false"}
           /\ enq'[m] # "true" => (heap' = heap /\ unfinished' = unfinished)]_vars

\* ---- the retry count of a dead letter -------------------------------------------

\* C38: every row's retry_count is between 0 and its max_retries, and no
\* step makes a row's retry_count smaller.
C38_RetryCountMonotone ==
    [][/\ \A i \in DOMAIN dlq' :
            0 <= dlq'[i].retry_count /\ dlq'[i].retry_count <= dlq'[i].max_retries
       /\ \A i \in DOMAIN dlq :
            dlq'[i].retry_count >= dlq[i].retry_count]_vars

\* C38, the first half alone: every row's retry_count is between 0 and its
\* max_retries.
C38_RetryCountInRange ==
    \A i \in DOMAIN dlq :
        0 <= dlq[i].retry_count /\ dlq[i].retry_count <= dlq[i].max_retries

\* ---- the DatabaseQueue -------------------------------------------------------------

\* the workers whose mark_processing on task id has returned True
Winners(id) ==
    {w \in Workers : /\ session[w].op = "returned"
                     /\ session[w].id = id
                     /\ session[w].value = "True"}

\* C39: for each task at most one worker's mark_processing has returned
\* True, and the worker_id stored in the row is that worker's.
C39_ExclusiveClaim ==
    \A id \in DOMAIN tasks :
        /\ Cardinality(Winners(id)) <= 1
        /\ Winners(id) # {} => tasks[id].worker_id \in Winners(id)

\* the FAILED rows with retries left
Retryable == {i \in DOMAIN tasks : /\ tasks[i].status = "failed"
                                   /\ tasks[i].retry_count < tasks[i].max_retries}

\* C40: retry_failed_tasks makes PENDING exactly the FAILED rows whose
\* retry_count is below max_retries, returns how many they are and leaves
\* every other row as it was; each mark_failed adds one to the row's
\* retry_count, which no call makes smaller, and no call makes PENDING a
\* row whose retry_count has reached max_retries.
C40_RetryBudget ==
    [][/\ retry_failed_tasks =>
            /\ DOMAIN tasks' = DOMAIN tasks
            /\ \A i \in DOMAIN tasks :
                 tasks'[i] = IF i \in Retryable
                             THEN [tasks[i] EXCEPT !.status = "pending"]
                             ELSE tasks[i]
            /\ ret'.value = Cardinality(Retryable)
       /\ \A i \in DOMAIN tasks :
            /\ mark_failed(i) =>
                 /\ tasks'[i].retry_count = tasks[i].retry_count + 1
                 /\ tasks'[i].status = "failed"
            /\ tasks'[i].retry_count >= tasks[i].retry_count
            /\ (/\ tasks[i].retry_count >= tasks[i].max_retries
                /\ tasks[i].status # "pending")
               => tasks'[i].status # "pending"]_vars

\* retry_failed_tasks has returned 1: it has moved a row that had failed
\* once and left FAILED a row that has failed max_retries times
C40_OneMovedOneSpent ==
    /\ ret.op = "retry_failed_tasks"
    /\ ret.value = 1
    /\ \E i, j \in DOMAIN tasks :
          /\ tasks[i].status = "failed"
          /\ tasks[i].retry_count = tasks[i].max_retries
          /\ tasks[j].status = "pending"
          /\ tasks[j].retry_count = 1

====
